---------------------------- MODULE Spec2Model ----------------------------
(***************************************************************************)
(* A model of the pseudo-METAR service: src/metar.py (fetch, extract,      *)
(* derive, format, batch orchestration) and src/main.py (HTTP endpoints).  *)
(*                                                                         *)
(* Text is a sequence of one-character strings, so that padding, joining   *)
(* and line splitting are computed and not assumed.  Observation values    *)
(* are integers; knots and feet are exact rationals over a fixed           *)
(* denominator, rounded half-to-even as Python's round does.               *)
(***************************************************************************)
EXTENDS Integers, Sequences, FiniteSets, TLC

(***************************************************************************)
(* Python built-ins used by the source                                     *)
(***************************************************************************)
None == "None"

Digits == <<"0", "1", "2", "3", "4", "5", "6", "7", "8", "9">>

IsDigit(c) == \E k \in 1..10 : Digits[k] = c

DigitVal(c) == (CHOOSE k \in 1..10 : Digits[k] = c) - 1

Abs(n) == IF n < 0 THEN -n ELSE n

Sign(n) == IF n < 0 THEN -1 ELSE 1

RECURSIVE NatChars(_)
NatChars(n) == IF n < 10 THEN <<Digits[n + 1]>>
               ELSE NatChars(n \div 10) \o <<Digits[(n % 10) + 1]>>

\* str(n) for an int n
str(n) == IF n < 0 THEN <<"-">> \o NatChars(-n) ELSE NatChars(n)

RECURSIVE Zeros(_)
Zeros(k) == IF k <= 0 THEN <<>> ELSE <<"0">> \o Zeros(k - 1)

\* s.zfill(width): zeros go after a leading sign
zfill(s, width) ==
    IF Len(s) >= width THEN s
    ELSE IF Len(s) > 0 /\ s[1] \in {"+", "-"}
         THEN <<s[1]>> \o Zeros(width - Len(s)) \o Tail(s)
         ELSE Zeros(width - Len(s)) \o s

\* round(num / den) for den > 0: nearest integer, ties to the even one
round(num, den) ==
    LET q == num \div den
        r == num % den
    IN  IF 2 * r < den THEN q
        ELSE IF 2 * r > den THEN q + 1
        ELSE IF q % 2 = 0 THEN q ELSE q + 1

\* the int of a numeral, for the fields of a timestamp
RECURSIVE int(_)
int(s) == IF s = <<>> THEN 0
          ELSE 10 * int(SubSeq(s, 1, Len(s) - 1)) + DigitVal(s[Len(s)])

AllDigits(s) == \A k \in 1..Len(s) : IsDigit(s[k])

\* s.replace(old, new) for a one-character old
RECURSIVE replace(_, _, _)
replace(s, old, new) ==
    IF s = <<>> THEN <<>>
    ELSE (IF s[1] = old THEN new ELSE <<s[1]>>) \o replace(Tail(s), old, new)

\* the outcome of a call: a returned value or a raised exception
Return(v) == [exc |-> None, val |-> v]

Raise(e) == [exc |-> e, val |-> None]

(***************************************************************************)
(* datetime.fromisoformat, isoformat(timespec="seconds") and strftime, on  *)
(* the second-precision forms YYYY-MM-DDTHH:MM:SS and the same followed by *)
(* a +HH:MM or -HH:MM offset; every other text raises ValueError            *)
(***************************************************************************)
DaysInMonth(y, m) ==
    IF m \in {4, 6, 9, 11} THEN 30
    ELSE IF m = 2
         THEN (IF (y % 4 = 0 /\ y % 100 # 0) \/ y % 400 = 0 THEN 29 ELSE 28)
         ELSE 31

fromisoformat(s) ==
    LET n == Len(s)
        shape == /\ n \in {19, 25}
                 /\ s[5] = "-" /\ s[8] = "-" /\ s[14] = ":" /\ s[17] = ":"
                 /\ AllDigits(SubSeq(s, 1, 4)) /\ AllDigits(SubSeq(s, 6, 7))
                 /\ AllDigits(SubSeq(s, 9, 10)) /\ AllDigits(SubSeq(s, 12, 13))
                 /\ AllDigits(SubSeq(s, 15, 16)) /\ AllDigits(SubSeq(s, 18, 19))
                 /\ n = 25 => /\ s[20] \in {"+", "-"} /\ s[23] = ":"
                              /\ AllDigits(SubSeq(s, 21, 22))
                              /\ AllDigits(SubSeq(s, 24, 25))
        dt == [year   |-> int(SubSeq(s, 1, 4)),
               month  |-> int(SubSeq(s, 6, 7)),
               day    |-> int(SubSeq(s, 9, 10)),
               sep    |-> s[11],
               hour   |-> int(SubSeq(s, 12, 13)),
               minute |-> int(SubSeq(s, 15, 16)),
               second |-> int(SubSeq(s, 18, 19)),
               tz     |-> IF n = 25 THEN SubSeq(s, 20, 25) ELSE <<>>]
    IN  IF ~shape THEN Raise("ValueError")
        ELSE IF \/ dt.year < 1 \/ dt.month \notin 1..12
                \/ dt.day \notin 1..DaysInMonth(dt.year, dt.month)
                \/ dt.hour > 23 \/ dt.minute > 59 \/ dt.second > 59
                \/ (n = 25 /\ (int(SubSeq(s, 21, 22)) > 23 \/ int(SubSeq(s, 24, 25)) > 59))
             THEN Raise("ValueError")
             ELSE Return([dt EXCEPT !.sep = "T"])

isoformat(dt) ==
    zfill(str(dt.year), 4) \o <<"-">> \o zfill(str(dt.month), 2) \o <<"-">>
    \o zfill(str(dt.day), 2) \o <<"T">> \o zfill(str(dt.hour), 2) \o <<":">>
    \o zfill(str(dt.minute), 2) \o <<":">> \o zfill(str(dt.second), 2) \o dt.tz

\* strftime("%d%H%MZ")
strftime_ddHHMMZ(dt) ==
    zfill(str(dt.day), 2) \o zfill(str(dt.hour), 2) \o zfill(str(dt.minute), 2)
    \o <<"Z">>

(***************************************************************************)
(* Configuration                                                           *)
(***************************************************************************)
EKRK == <<"E", "K", "R", "K">>

EKHK == <<"E", "K", "H", "K">>

ID_06170 == <<"0", "6", "1", "7", "0">>

ID_06156 == <<"0", "6", "1", "5", "6">>

\* DMI id -> ICAO
STATIONS == [sid \in {ID_06170, ID_06156} |->
                IF sid = ID_06170 THEN EKRK ELSE EKHK]

\* list(STATIONS): the ids in the order the table is written
list_STATIONS == <<ID_06170, ID_06156>>

\* STATIONS.get(station_id, station_id)
STATIONS_get(station_id) ==
    IF station_id \in DOMAIN STATIONS THEN STATIONS[station_id]
    ELSE station_id

PARAM_IDS == {"temp_dew", "temp_dry", "visib_mean_last10min", "pressure_at_sea",
              "wind_dir", "wind_speed", "wind_max", "cloud_cover", "cloud_height"}

PARAMS == [pid \in PARAM_IDS |->
    CASE pid = "temp_dew"             -> "temp_dew_c"
      [] pid = "temp_dry"             -> "temp_dry_c"
      [] pid = "visib_mean_last10min" -> "visibility_m"
      [] pid = "pressure_at_sea"      -> "qnh_hpa"
      [] pid = "wind_dir"             -> "wind_dir_deg"
      [] pid = "wind_speed"           -> "wind_speed_ms"
      [] pid = "wind_max"             -> "wind_gust_ms"
      [] pid = "cloud_cover"          -> "cloud_cover_pct"
      [] pid = "cloud_height"         -> "cloud_height_m"]

ALIASES == {PARAMS[pid] : pid \in PARAM_IDS}

\* PARAMS.get(pid)
PARAMS_get(pid) == IF pid \in DOMAIN PARAMS THEN PARAMS[pid] ELSE None

(***************************************************************************)
(* Value extractor                                                         *)
(***************************************************************************)
\* the body of the for loop of latest_values, from feature k on
RECURSIVE latest_values_loop(_, _, _)
latest_values_loop(result, features, k) ==
    IF k > Len(features) THEN Return(result)
    ELSE LET feat == features[k] IN
         IF "properties" \notin DOMAIN feat THEN Raise("KeyError")
         ELSE IF "parameterId" \notin DOMAIN feat.properties THEN Raise("KeyError")
         ELSE LET alias == PARAMS_get(feat.properties.parameterId) IN
              IF alias # None /\ result[alias] = -1
              THEN IF "value" \notin DOMAIN feat.properties THEN Raise("KeyError")
                   ELSE LET set == [result EXCEPT ![alias] = feat.properties.value]
                        IN  IF \A a \in DOMAIN set : set[a] # -1
                            THEN Return(set)
                            ELSE latest_values_loop(set, features, k + 1)
              ELSE latest_values_loop(result, features, k + 1)

latest_values(payload) ==
    IF "features" \notin DOMAIN payload THEN Raise("KeyError")
    ELSE latest_values_loop([alias \in ALIASES |-> -1], payload.features, 1)

(***************************************************************************)
(* Domain-specific calculations                                            *)
(***************************************************************************)
\* knots and feet are numerators over UnitDen
UnitDen == 100000

KnotsPerMs == 194384

FeetPerMetre == 328084

\* metre/sec -> knots, as a numerator over UnitDen
kt(ms) == ms * KnotsPerMs

NCD == <<"N", "C", "D">>

SKC == <<"S", "K", "C">>

FEW == <<"F", "E", "W">>

SCT == <<"S", "C", "T">>

BKN == <<"B", "K", "N">>

OVC == <<"O", "V", "C">>

\* cloud_code with the FEW bucket reaching 30
cloud_code_few_30(cover) ==
    IF cover <= 0 THEN NCD
    ELSE IF cover <= 10 THEN SKC
    ELSE IF cover <= 30 THEN FEW
    ELSE IF cover <= 50 THEN SCT
    ELSE IF cover <= 90 THEN BKN
    ELSE OVC

cloud_code(cover) ==
    IF cover <= 0 THEN NCD
    ELSE IF cover <= 10 THEN SKC
    ELSE IF cover <= 25 THEN FEW
    ELSE IF cover <= 50 THEN SCT
    ELSE IF cover <= 90 THEN BKN
    ELSE OVC

\* sin of 0..90 degrees, as numerators over UnitDen; with five decimals the
\* rounded components equal those of the float computation for every whole
\* direction and every whole speed up to 61 m/s
SinTable ==
  << 0, 1745, 3490, 5234, 6976, 8716, 10453, 12187, 13917, 15643,
     17365, 19081, 20791, 22495, 24192, 25882, 27564, 29237, 30902, 32557,
     34202, 35837, 37461, 39073, 40674, 42262, 43837, 45399, 46947, 48481,
     50000, 51504, 52992, 54464, 55919, 57358, 58779, 60182, 61566, 62932,
     64279, 65606, 66913, 68200, 69466, 70711, 71934, 73135, 74314, 75471,
     76604, 77715, 78801, 79864, 80902, 81915, 82904, 83867, 84805, 85717,
     86603, 87462, 88295, 89101, 89879, 90631, 91355, 92050, 92718, 93358,
     93969, 94552, 95106, 95630, 96126, 96593, 97030, 97437, 97815, 98163,
     98481, 98769, 99027, 99255, 99452, 99619, 99756, 99863, 99939, 99985,
     100000 >>

\* math.sin(math.radians(deg)), as a numerator over UnitDen
sin(deg) ==
    LET b == deg % 360
    IN  IF b <= 90 THEN SinTable[b + 1]
        ELSE IF b <= 180 THEN SinTable[180 - b + 1]
        ELSE IF b <= 270 THEN -SinTable[b - 180 + 1]
        ELSE -SinTable[360 - b + 1]

\* math.cos(math.radians(deg)), as a numerator over UnitDen
cos(deg) == sin(deg + 90)

\* round(f * w) for f and w numerators over UnitDen; the product is formed
\* in two limbs so that no intermediate value leaves 32 bits
round_product(f, w) ==
    LET limb == 10000
        af   == Abs(f)
        aw   == Abs(w)
        low  == (aw % limb) * af
        a    == (aw \div limb) * af + (low \div limb)
        rest == low % limb
        den  == UnitDen * (UnitDen \div limb)
        q    == a \div den
        r    == a % den
        mag  == IF 2 * r < den THEN q
                ELSE IF 2 * r > den \/ rest > 0 THEN q + 1
                ELSE IF q % 2 = 0 THEN q ELSE q + 1
    IN  Sign(f) * Sign(w) * mag

\* the angular offset of the wind to the selected runway
runway_offset(wdir) ==
    IF 10 < wdir /\ wdir < 190 THEN wdir - 100
    ELSE IF wdir >= 190 THEN wdir - 280 ELSE wdir + 80

\* runway_and_components that leaves the components out of a calm record
runway_and_components_calm(wdir, wspd_ms) ==
    LET offset == runway_offset(wdir)
        wspd   == kt(wspd_ms)
        side   == IF offset < 0 THEN "left" ELSE "right"
    IN  IF wspd_ms = 0
        THEN [runway |-> str(IF 10 < wdir /\ wdir < 190 THEN 10 ELSE 28),
              crosswind_from |-> side]
        ELSE [runway         |-> str(IF 10 < wdir /\ wdir < 190 THEN 10 ELSE 28),
              headwind_kt    |-> Abs(round_product(cos(offset), wspd)),
              crosswind_kt   |-> Abs(round_product(sin(offset), wspd)),
              crosswind_from |-> side]

\* runway_and_components with the sector's upper edge included and the
\* components left signed
runway_and_components_signed(wdir, wspd_ms) ==
    LET rwy    == IF 10 < wdir /\ wdir <= 190 THEN 10 ELSE 28
        offset == runway_offset(wdir)
        wspd   == kt(wspd_ms)
        hw     == round_product(cos(offset), wspd)
        xw     == round_product(sin(offset), wspd)
    IN  [runway         |-> str(rwy),
         headwind_kt    |-> hw,
         crosswind_kt   |-> xw,
         crosswind_from |-> IF offset < 0 THEN "left" ELSE "right"]

runway_and_components(wdir, wspd_ms) ==
    LET rwy    == IF 10 < wdir /\ wdir < 190 THEN 10 ELSE 28
        offset == runway_offset(wdir)
        wspd   == kt(wspd_ms)
        hw     == Abs(round_product(cos(offset), wspd))
        xw     == Abs(round_product(sin(offset), wspd))
    IN  [runway         |-> str(rwy),
         headwind_kt    |-> hw,
         crosswind_kt   |-> xw,
         crosswind_from |-> IF offset < 0 THEN "left" ELSE "right"]

(***************************************************************************)
(* Report builder                                                          *)
(***************************************************************************)
\* an optional int: cloud_height_ft is None or a number
NoHeight == <<>>

Height(n) == <<n>>

build_metar_dict(station_id, raw) ==
    LET lv == latest_values(raw) IN
    IF lv.exc # None THEN lv
    ELSE IF raw.features = <<>> THEN Raise("IndexError")
    ELSE IF "observed" \notin DOMAIN raw.features[1].properties THEN Raise("KeyError")
    ELSE LET vals   == lv.val
             name   == STATIONS_get(station_id)
             obs_dt == fromisoformat(
                           replace(raw.features[1].properties.observed, "Z",
                                   <<"+", "0", "0", ":", "0", "0">>))
         IN  IF obs_dt.exc # None THEN obs_dt
             ELSE LET metar_bits ==
                          [station  |-> name,
                           observed |-> isoformat(obs_dt.val)] @@ vals
                      derived ==
                          [wind_speed_kt   |-> round(kt(vals.wind_speed_ms), UnitDen),
                           wind_gust_kt    |-> round(kt(vals.wind_gust_ms), UnitDen),
                           cloud_code      |-> cloud_code(vals.cloud_cover_pct),
                           cloud_height_ft |->
                               IF vals.cloud_height_m > 15
                               THEN Height(round(vals.cloud_height_m * FeetPerMetre,
                                                 UnitDen))
                               ELSE NoHeight]
                  IN  Return(runway_and_components(vals.wind_dir_deg,
                                                   vals.wind_speed_ms)
                             @@ derived @@ metar_bits)

(***************************************************************************)
(* Formatter                                                               *)
(***************************************************************************)
\* the two arrow glyphs, each one character of the text
LeftArrow == "U+2190"

RightArrow == "U+2192"

NL == "\n"

wind_line(d) ==
    LET wdir == round(d.wind_dir_deg, 10) * 10
        wspd == zfill(str(d.wind_speed_kt), 2)
        gust == IF d.wind_gust_kt - d.wind_speed_kt > 10
                THEN <<"G">> \o zfill(str(d.wind_gust_kt), 2)
                ELSE <<>>
    IN  zfill(str(wdir), 3) \o wspd \o (IF gust # <<>> THEN <<"G">> ELSE <<>>)
        \o gust \o <<"K", "T", " ", NL>>

clouds_token(d) ==
    IF d.cloud_code # SKC /\ d.cloud_height_ft # NoHeight
       /\ d.cloud_height_ft[1] # 0
    THEN d.cloud_code \o zfill(str(d.cloud_height_ft[1] \div 100), 3)
    ELSE d.cloud_code

\* vis_token with the hundreds padded to the token's 4 digits
vis_token_padded(d) ==
    IF d.visibility_m >= 9999 THEN <<"9", "9", "9", "9">>
    ELSE IF d.visibility_m < 100 THEN <<"0", "0", "0", "0">>
    ELSE zfill(str(d.visibility_m \div 100), 4)

vis_token(d) ==
    IF d.visibility_m > 9999 THEN <<"9", "9", "9", "9">>
    ELSE IF d.visibility_m < 100 THEN <<"0", "0", "0", "0">>
    ELSE zfill(str(d.visibility_m \div 100), 2) \o <<"0", "0">>

\* rwy_block with each arrow pointing to the side the wind comes from
rwy_block_geometric(d) ==
    <<"R">> \o d.runway \o <<" ", "H", "W">>
    \o zfill(str(d.headwind_kt), 2) \o <<" ", "X", "W">>
    \o <<IF d.crosswind_from = "right" THEN RightArrow ELSE LeftArrow>>
    \o zfill(str(d.crosswind_kt), 2)

rwy_block(d) ==
    <<"R">> \o d.runway \o <<" ", "H", "W">>
    \o zfill(str(d.headwind_kt), 2) \o <<" ", "X", "W">>
    \o <<IF d.crosswind_from = "right" THEN LeftArrow ELSE RightArrow>>
    \o zfill(str(d.crosswind_kt), 2)

metar_string(d) ==
    LET ts == strftime_ddHHMMZ(fromisoformat(d.observed).val)
        temp_dew == str(d.temp_dry_c) \o <<"/">> \o str(d.temp_dew_c)
        qnh == <<"Q">> \o str(d.qnh_hpa)
    IN  d.station \o <<" ", "M", "E", "T", "A", "R", " ">> \o ts \o <<" ", NL>>
        \o wind_line(d)
        \o vis_token(d) \o <<" ">> \o clouds_token(d) \o <<" ">> \o qnh
        \o <<" ">> \o temp_dew \o <<" ", NL, " ">> \o rwy_block(d) \o <<NL>>

(***************************************************************************)
(* Provider payloads                                                       *)
(***************************************************************************)
\* one feature of the provider's feature collection
Feature(pid, value, observed) ==
    [properties |-> [parameterId |-> pid, value |-> value, observed |-> observed]]

\* the order in which a payload lists the tracked parameters
ParamOrder == <<"wind_dir", "wind_speed", "wind_max", "cloud_cover", "cloud_height",
                "visib_mean_last10min", "pressure_at_sea", "temp_dry", "temp_dew">>

\* the payload that carries observation obs (parameter id -> value), one
\* feature per parameter obs holds, after the features of lead
Payload(lead, obs, observed) ==
    LET held == SelectSeq(ParamOrder, LAMBDA pid : pid \in DOMAIN obs)
    IN  [features |-> lead \o [k \in 1..Len(held) |->
                                  Feature(held[k], obs[held[k]], observed)]]

T_161250Z == <<"2", "0", "2", "4", "-", "0", "1", "-", "1", "6", "T",
               "1", "2", ":", "5", "0", ":", "0", "0", "Z">>

T_292359 == <<"2", "0", "2", "4", "-", "0", "2", "-", "2", "9", "T",
              "2", "3", ":", "5", "9", ":", "5", "9", "+", "0", "1", ":", "0", "0">>

T_Slashes == <<"1", "6", "/", "0", "1", "/", "2", "0", "2", "4">>

\* wind 140 at 5 m/s, cover 30, base 20 m, visibility 12000, QNH 1008, 6/4
Obs_E2E ==
    [pid \in PARAM_IDS \ {"wind_max"} |->
        CASE pid = "wind_dir"             -> 140
          [] pid = "wind_speed"           -> 5
          [] pid = "cloud_cover"          -> 30
          [] pid = "cloud_height"         -> 20
          [] pid = "visib_mean_last10min" -> 12000
          [] pid = "pressure_at_sea"      -> 1008
          [] pid = "temp_dry"             -> 6
          [] pid = "temp_dew"             -> 4]

\* obs with the values of upd written over it
With(obs, upd) == upd @@ obs

Payload_E2E == Payload(<<>>, Obs_E2E, T_161250Z)

\* a second station's weather: wind 300 at 8 m/s gusting 15, overcast
Payload_Gusty ==
    Payload(<<>>,
            With(Obs_E2E, [wind_dir |-> 300, wind_speed |-> 8, wind_max |-> 15,
                           cloud_cover |-> 95, cloud_height |-> 400]),
            T_292359)

Payload_Empty == [features |-> <<>>]

Payload_BadTime == Payload(<<>>, Obs_E2E, T_Slashes)

(***************************************************************************)
(* Observation fetcher                                                     *)
(***************************************************************************)
\* what the provider can answer to one request: nothing in time, a status
\* with a body that is JSON or not
Replies ==
    {[kind |-> "timeout", status |-> 0, is_json |-> FALSE, body |-> Payload_Empty],
     [kind |-> "http", status |-> 500, is_json |-> FALSE, body |-> Payload_Empty],
     [kind |-> "http", status |-> 200, is_json |-> FALSE, body |-> Payload_Empty],
     [kind |-> "http", status |-> 200, is_json |-> TRUE, body |-> Payload_Empty],
     [kind |-> "http", status |-> 200, is_json |-> TRUE, body |-> Payload_E2E],
     [kind |-> "http", status |-> 200, is_json |-> TRUE, body |-> Payload_Gusty]}

\* fetch_station(station_id) when the provider answers reply
fetch_station(station_id, reply) ==
    IF reply.kind = "timeout" THEN Raise("Timeout")
    ELSE IF reply.status >= 400 THEN Raise("HTTPError")
    ELSE IF ~reply.is_json THEN Raise("JSONDecodeError")
    ELSE Return(reply.body)

(***************************************************************************)
(* State                                                                   *)
(***************************************************************************)
VARIABLES
    entry,        \* the entry point running: an endpoint, the script, a function
    pc,           \* its control point
    station_ids,  \* get_metar's argument
    sids,         \* the list get_metar's loop walks
    idx,          \* the loop's position in sids
    out,          \* get_metar's result list
    served,       \* the provider's reply to each fetch so far, in order
    events,       \* fetches, delays and log lines so far, in order
    response,     \* the HTTP response or the printed output
    args,         \* the arguments of the function under call
    ret           \* its outcome

vars == <<entry, pc, station_ids, sids, idx, out, served, events, response, args, ret>>

\* the longest list of station ids a caller passes
MaxStations == 3

\* a station id the table does not hold
ID_99999 == <<"9", "9", "9", "9", "9">>

\* the lists a caller passes: none, or up to MaxStations ids, repeats allowed
StationLists ==
    UNION {[1..n -> {ID_06170, ID_06156}] : n \in 0..MaxStations}

Event(ev, sid) == [ev |-> ev, sid |-> sid]

NoResponse == [status |-> 0, body |-> <<>>]

NoCall == [f |-> None]

(***************************************************************************)
(* Batch orchestration: get_metar                                          *)
(***************************************************************************)
\* lines 155-158: an empty or missing list stands for every configured station
get_metar_enter ==
    /\ pc = "get_metar"
    /\ sids' = IF station_ids = <<>> THEN list_STATIONS ELSE station_ids
    /\ out' = <<>>
    /\ idx' = 1
    /\ pc' = "for"
    /\ UNCHANGED <<entry, station_ids, served, events, response, args, ret>>

\* one pass of the loop in which fetch and build both return: the record is
\* appended and the delay follows
iterate_ok ==
    /\ pc = "for" /\ idx <= Len(sids)
    /\ \E reply \in Replies :
         LET sid == sids[idx]
             raw == fetch_station(sid, reply)
             rec == build_metar_dict(sid, raw.val)
         IN  /\ raw.exc = None
             /\ rec.exc = None
             /\ out' = Append(out, rec.val)
             /\ served' = Append(served, reply)
             /\ events' = events \o <<Event("fetch", sid), Event("sleep", sid)>>
    /\ idx' = idx + 1
    /\ UNCHANGED <<entry, pc, station_ids, sids, response, args, ret>>

\* iterate_http_error without the handler of line 164 or the one after it:
\* the HTTP error leaves get_metar
iterate_http_error_propagates ==
    /\ pc = "for" /\ idx <= Len(sids)
    /\ \E reply \in Replies :
         LET sid == sids[idx]
             raw == fetch_station(sid, reply)
         IN  /\ raw.exc = "HTTPError"
             /\ served' = Append(served, reply)
             /\ events' = Append(events, Event("fetch", sid))
    /\ pc' = "raised"
    /\ UNCHANGED <<entry, station_ids, sids, idx, out, response, args, ret>>

\* one pass in which fetch_station raises requests.HTTPError
iterate_http_error ==
    /\ pc = "for" /\ idx <= Len(sids)
    /\ \E reply \in Replies :
         LET sid == sids[idx]
             raw == fetch_station(sid, reply)
         IN  /\ raw.exc = "HTTPError"
             /\ served' = Append(served, reply)
             /\ events' = events \o <<Event("fetch", sid), Event("log_http", sid)>>
    /\ idx' = idx + 1
    /\ UNCHANGED <<entry, pc, station_ids, sids, out, response, args, ret>>

\* iterate_exception without the handler of line 169: the exception leaves
\* get_metar
iterate_exception_propagates ==
    /\ pc = "for" /\ idx <= Len(sids)
    /\ \E reply \in Replies :
         LET sid == sids[idx]
             raw == fetch_station(sid, reply)
         IN  /\ \/ raw.exc \notin {None, "HTTPError"}
                \/ raw.exc = None /\ build_metar_dict(sid, raw.val).exc # None
             /\ served' = Append(served, reply)
             /\ events' = Append(events, Event("fetch", sid))
    /\ pc' = "raised"
    /\ UNCHANGED <<entry, station_ids, sids, idx, out, response, args, ret>>

\* one pass in which fetch_station or build_metar_dict raises anything else
iterate_exception ==
    /\ pc = "for" /\ idx <= Len(sids)
    /\ \E reply \in Replies :
         LET sid == sids[idx]
             raw == fetch_station(sid, reply)
         IN  /\ \/ raw.exc \notin {None, "HTTPError"}
                \/ raw.exc = None /\ build_metar_dict(sid, raw.val).exc # None
             /\ served' = Append(served, reply)
             /\ events' = events \o <<Event("fetch", sid), Event("log_decode", sid)>>
    /\ idx' = idx + 1
    /\ UNCHANGED <<entry, pc, station_ids, sids, out, response, args, ret>>

get_metar_return ==
    /\ pc = "for" /\ idx > Len(sids)
    /\ pc' = "returned"
    /\ UNCHANGED <<entry, station_ids, sids, idx, out, served, events, response,
                   args, ret>>

(***************************************************************************)
(* Presentation shell: main.py, and the script entry of metar.py           *)
(***************************************************************************)
\* the page around the report; the markup is two tokens
HtmlPage(metar) == <<"<html>..<span>">> \o metar \o <<"</span>..</html>">>

Unavailable == <<"<h3>Service temporarily unavailable</h3>">>

\* GET /ekhk; an exception leaving the handler is the framework's 500
ekhg_page ==
    /\ entry = "ekhg_page" /\ pc \in {"returned", "raised"}
    /\ response' = IF pc = "raised" THEN [status |-> 500, body |-> <<>>]
                   ELSE IF out = <<>> THEN [status |-> 503, body |-> Unavailable]
                   ELSE [status |-> 200, body |-> HtmlPage(metar_string(out[1]))]
    /\ pc' = "done"
    /\ UNCHANGED <<entry, station_ids, sids, idx, out, served, events, args, ret>>

\* GET /json
ekhk ==
    /\ entry = "ekhk" /\ pc \in {"returned", "raised"}
    /\ response' = IF pc = "raised" THEN [status |-> 500, body |-> <<>>]
                   ELSE [status |-> 200, body |-> out]
    /\ pc' = "done"
    /\ UNCHANGED <<entry, station_ids, sids, idx, out, served, events, args, ret>>

\* python metar.py <ids>: the records are printed
main ==
    /\ entry = "main" /\ pc = "returned"
    /\ response' = [status |-> 0, body |-> out]
    /\ pc' = "done"
    /\ UNCHANGED <<entry, station_ids, sids, idx, out, served, events, args, ret>>

Init ==
    /\ entry \in {"ekhg_page", "ekhk", "main"}
    /\ station_ids \in IF entry = "main" THEN StationLists ELSE {<<ID_06156>>}
    /\ pc = "get_metar"
    /\ sids = <<>> /\ idx = 0 /\ out = <<>>
    /\ served = <<>> /\ events = <<>>
    /\ response = NoResponse
    /\ args = NoCall /\ ret = NoCall

Next ==
    \/ get_metar_enter
    \/ iterate_ok
    \/ iterate_http_error
    \/ iterate_exception
    \/ get_metar_return
    \/ ekhg_page
    \/ ekhk
    \/ main

Spec == Init /\ [][Next]_vars

(***************************************************************************)
(* The pure functions, each called on inputs drawn from bounded sets       *)
(***************************************************************************)
Idle ==
    /\ station_ids = <<>> /\ sids = <<>> /\ idx = 0 /\ out = <<>>
    /\ served = <<>> /\ events = <<>>

\* ---- latest_values ------------------------------------------------------
\* the longest run of features after the lead of a payload
MaxFeatures == 3

\* a parameter the table does not track
Untracked == "humidity"

ExtractFeatures ==
    {Feature(pid, v, T_161250Z) : pid \in {"temp_dry", "wind_dir", Untracked},
                                  v \in {-1, 3, 7}}

\* every tracked parameter but temp_dry, once
ExtractLead ==
    Payload(<<>>, [pid \in PARAM_IDS \ {"temp_dry"} |-> 1], T_161250Z).features

ExtractPayloads ==
    {[features |-> lead \o tail] :
        lead \in {<<>>, ExtractLead},
        tail \in UNION {[1..n -> ExtractFeatures] : n \in 0..MaxFeatures}}

InitExtract ==
    /\ entry = "latest_values" /\ pc = "call"
    /\ args \in {[f |-> "latest_values", payload |-> p] : p \in ExtractPayloads}
    /\ ret = NoCall /\ response = NoResponse
    /\ Idle

call_latest_values ==
    /\ entry = "latest_values" /\ pc = "call"
    /\ ret' = latest_values(args.payload)
    /\ pc' = "done"
    /\ UNCHANGED <<entry, station_ids, sids, idx, out, served, events, response, args>>

SpecExtract == InitExtract /\ [][call_latest_values]_vars

\* ---- runway_and_components ----------------------------------------------
\* the strongest wind, in m/s
MaxWindMs == 30

\* directions: the compass, the sentinel -1 of a missing value, and 360
WindDirs == -1..360

InitWind ==
    /\ entry = "runway_and_components" /\ pc = "call"
    /\ args \in {[f |-> "runway_and_components", wdir |-> wd, wspd_ms |-> ws] :
                    wd \in WindDirs, ws \in -1..MaxWindMs}
    /\ ret = NoCall /\ response = NoResponse
    /\ Idle

call_runway_and_components ==
    /\ entry = "runway_and_components" /\ pc = "call"
    /\ ret' = Return(runway_and_components(args.wdir, args.wspd_ms))
    /\ pc' = "done"
    /\ UNCHANGED <<entry, station_ids, sids, idx, out, served, events, response, args>>

SpecWind == InitWind /\ [][call_runway_and_components]_vars

\* ---- build_metar_dict, then metar_string --------------------------------
\* the strongest wind and gust of a report, in m/s
MaxReportWindMs == 12

Visibilities == {0, 50, 99, 100, 4321, 9999, 10000, 12000}

Covers == {0, 10, 25, 30, 50, 90, 100}

Heights == {15, 16, 20, 400}

\* a payload's first feature when it carries no tracked parameter
UntrackedLead(observed) == <<Feature(Untracked, 55, observed)>>

ReportPayloads ==
    \* every direction at every speed
    {Payload(<<>>, With(Obs_E2E, [wind_dir |-> wd, wind_speed |-> ws]), T_161250Z) :
        wd \in 0..359, ws \in 0..MaxReportWindMs}
    \* every speed with every gust
    \cup {Payload(<<>>, With(Obs_E2E, [wind_speed |-> ws, wind_max |-> wg]), T_292359) :
        ws \in 0..MaxReportWindMs, wg \in 0..MaxReportWindMs}
    \* visibility, cloud and temperature
    \cup {Payload(<<>>, With(Obs_E2E, [visib_mean_last10min |-> vis, cloud_cover |-> cc,
                                       cloud_height |-> ch, temp_dry |-> td]),
                  T_161250Z) :
        vis \in Visibilities, cc \in Covers, ch \in Heights, td \in {-1, 6}}
    \* any set of tracked parameters missing
    \cup {Payload(UntrackedLead(T_161250Z), [pid \in held |-> Obs_E2E[pid]], T_161250Z) :
        held \in SUBSET (PARAM_IDS \ {"wind_max"})}
    \* calm wind from any direction the payload may omit
    \cup {Payload(UntrackedLead(T_161250Z), [wind_speed |-> 0], T_161250Z)}
    \* payloads build_metar_dict rejects
    \cup {Payload_Empty, Payload_BadTime,
          [features |-> <<[properties |-> [parameterId |-> "wind_dir", value |-> 140]]>>]}

InitReport ==
    /\ entry = "build_metar_dict" /\ pc = "call"
    /\ args \in {[f |-> "build_metar_dict", station_id |-> sid, raw |-> p] :
                    sid \in {ID_06156}, p \in ReportPayloads}
               \cup {[f |-> "build_metar_dict", station_id |-> sid, raw |-> Payload_Gusty] :
                    sid \in {ID_06170, ID_99999}}
    /\ ret = NoCall /\ response = NoResponse
    /\ Idle

call_build_metar_dict ==
    /\ entry = "build_metar_dict" /\ pc = "call"
    /\ ret' = build_metar_dict(args.station_id, args.raw)
    /\ pc' = "built"
    /\ UNCHANGED <<entry, station_ids, sids, idx, out, served, events, response, args>>

\* the record goes to the formatter, as in ekhg_page
call_metar_string ==
    /\ entry = "build_metar_dict" /\ pc = "built" /\ ret.exc = None
    /\ response' = [status |-> 0, body |-> metar_string(ret.val)]
    /\ pc' = "formatted"
    /\ UNCHANGED <<entry, station_ids, sids, idx, out, served, events, args, ret>>

NextReport == call_build_metar_dict \/ call_metar_string

SpecReport == InitReport /\ [][NextReport]_vars

(***************************************************************************)
(* Properties                                                              *)
(***************************************************************************)
\* the lines of a text, without their newlines
RECURSIVE Lines(_)
Lines(t) ==
    IF t = <<>> THEN <<>>
    ELSE LET cut == IF \E k \in 1..Len(t) : t[k] = NL
                    THEN CHOOSE k \in 1..Len(t) :
                             t[k] = NL /\ \A j \in 1..(k - 1) : t[j] # NL
                    ELSE Len(t) + 1
         IN  <<SubSeq(t, 1, cut - 1)>> \o Lines(SubSeq(t, cut + 1, Len(t)))

\* a line without the blanks around it
RECURSIVE Strip(_)
Strip(l) ==
    IF l # <<>> /\ l[Len(l)] = " " THEN Strip(SubSeq(l, 1, Len(l) - 1))
    ELSE IF l # <<>> /\ l[1] = " " THEN Strip(Tail(l))
    ELSE l

\* the blank-separated tokens of a line
RECURSIVE Tokens(_)
Tokens(l) ==
    LET s == Strip(l) IN
    IF s = <<>> THEN <<>>
    ELSE LET cut == IF \E k \in 1..Len(s) : s[k] = " "
                    THEN CHOOSE k \in 1..Len(s) :
                             s[k] = " " /\ \A j \in 1..(k - 1) : s[j] # " "
                    ELSE Len(s) + 1
         IN  <<SubSeq(s, 1, cut - 1)>> \o Tokens(SubSeq(s, cut + 1, Len(s)))

IsPrefix(p, l) == Len(p) <= Len(l) /\ SubSeq(l, 1, Len(p)) = p

Count(c, l) == Cardinality({k \in 1..Len(l) : l[k] = c})

\* whether the fetch answered by reply, and the build after it, both succeed
Succeeds(sid, reply) ==
    /\ fetch_station(sid, reply).exc = None
    /\ build_metar_dict(sid, fetch_station(sid, reply).val).exc = None

\* the records of the stations of ids whose fetch and build succeeded, in
\* the order of ids, each built from that station's own payload
RECURSIVE RecordsOf(_, _)
RecordsOf(ids, replies) ==
    IF ids = <<>> \/ replies = <<>> THEN <<>>
    ELSE (IF Succeeds(ids[1], replies[1])
          THEN <<build_metar_dict(ids[1], replies[1].body).val>>
          ELSE <<>>)
         \o RecordsOf(Tail(ids), Tail(replies))

Finished == pc \in {"returned", "done"}

\* C1 as stated: get_metar returns normally and its result holds exactly one
\* record per station of the input list whose fetch and build succeeded, in
\* input order, whatever the other stations did.
C1_ResultOfInputList ==
    /\ pc # "raised"
    /\ Finished => /\ Len(served) = Len(station_ids)
                   /\ out = RecordsOf(station_ids, served)

\* C1 amended: the same of the list the loop walks, which is the input list
\* when that is not empty and the configured stations otherwise.
C1_ResultOfEffectiveList ==
    /\ pc # "raised"
    /\ Finished => /\ sids = IF station_ids = <<>> THEN list_STATIONS ELSE station_ids
                   /\ Len(served) = Len(sids)
                   /\ out = RecordsOf(sids, served)

\* a batch of three whose middle station failed and whose others are kept
C1_Witness ==
    /\ pc = "returned" /\ Len(station_ids) = 3 /\ Len(out) = 2
    /\ ~Succeeds(sids[2], served[2])
    /\ out[1] # out[2]

\* the positions of the fetches in the trace of events
Fetches == {k \in 1..Len(events) : events[k].ev = "fetch"}

\* C3 as stated: the stations are fetched one after another in list order,
\* and between every two successive fetches the throttle delay is executed,
\* whether the earlier station succeeded or failed.
C3_DelayBetweenFetches ==
    /\ \A i \in Fetches :
           events[i].sid = sids[Cardinality({k \in Fetches : k <= i})]
    /\ \A i, j \in Fetches :
           i < j => \E k \in (i + 1)..(j - 1) : events[k].ev = "sleep"

FirstValue(features, pid) ==
    LET at == {k \in 1..Len(features) : features[k].properties.parameterId = pid}
    IN  IF at = {} THEN -1
        ELSE features[CHOOSE k \in at : \A j \in at : k <= j].properties.value

\* C2 as stated: for every tracked parameter latest_values returns the value
\* of the first feature in payload order that carries it (-1 if none does);
\* a later feature never overrides the first, whatever the values are.
C2_FirstSeenWins ==
    (entry = "latest_values" /\ pc = "done" /\ ret.exc = None) =>
        \A pid \in PARAM_IDS :
            ret.val[PARAMS[pid]] = FirstValue(args.payload.features, pid)

\* C4: for every wind direction d in [0,360) and every wind speed the runway
\* is "10" if and only if 10 < d < 190 and "28" otherwise, and headwind and
\* crosswind are non-negative integers.
C4_RunwaySector ==
    (entry = "runway_and_components" /\ pc = "done" /\ args.wdir \in 0..359) =>
        /\ ret.val.runway = <<"1", "0">> <=> (10 < args.wdir /\ args.wdir < 190)
        /\ ret.val.runway = <<"2", "8">> <=> ~(10 < args.wdir /\ args.wdir < 190)
        /\ ret.val.headwind_kt \in Nat
        /\ ret.val.crosswind_kt \in Nat

\* a wind on the sector's edge, blowing across the runway
C4_Witness ==
    /\ entry = "runway_and_components" /\ pc = "done"
    /\ args.wdir = 189 /\ args.wspd_ms = 10
    /\ ret.val.runway = <<"1", "0">>
    /\ ret.val.headwind_kt = 0 /\ ret.val.crosswind_kt = 19

Formatted == entry = "build_metar_dict" /\ pc = "formatted"

\* the lines of the report, and the tokens of its third line
ReportLine(n) == Lines(response.body)[n]

VisToken == Tokens(ReportLine(3))[1]

CloudToken == Tokens(ReportLine(3))[2]

KT == <<"K", "T">>

\* C5 as stated: the wind line (read without the blank that ends it) carries
\* a gust token if and only if gust minus speed exceeds 10 kt; with it the
\* line is direction, speed, one G, the gust on 2 digits, KT; without it the
\* line is direction, speed, KT and holds no G.
C5_GustToken ==
    Formatted =>
        LET d    == ret.val
            line == Strip(ReportLine(2))
            dir3 == zfill(str(round(d.wind_dir_deg, 10) * 10), 3)
            spd2 == zfill(str(d.wind_speed_kt), 2)
        IN  IF d.wind_gust_kt - d.wind_speed_kt > 10
            THEN line = dir3 \o spd2 \o <<"G">> \o zfill(str(d.wind_gust_kt), 2) \o KT
            ELSE line = dir3 \o spd2 \o KT /\ Count("G", line) = 0

\* C6 as stated: the visibility token is "9999" for 9999 m, "0000" for 50 m
\* and "0043" for 4321 m.
C6_VisibilityAsStated ==
    Formatted =>
        /\ ret.val.visibility_m = 9999 => VisToken = <<"9", "9", "9", "9">>
        /\ ret.val.visibility_m = 50 => VisToken = <<"0", "0", "0", "0">>
        /\ ret.val.visibility_m = 4321 => VisToken = <<"0", "0", "4", "3">>

\* C6 amended: the visibility token is "9900" for 9999 m, "0000" for 50 m
\* and "4300" for 4321 m.
C6_VisibilityHundreds ==
    Formatted =>
        /\ ret.val.visibility_m = 9999 => VisToken = <<"9", "9", "0", "0">>
        /\ ret.val.visibility_m = 50 => VisToken = <<"0", "0", "0", "0">>
        /\ ret.val.visibility_m = 4321 => VisToken = <<"4", "3", "0", "0">>

\* a report of 4321 m
C6_Witness ==
    Formatted /\ ret.val.visibility_m = 4321 /\ VisToken = <<"4", "3", "0", "0">>

\* the end-to-end case: station 06156 and the payload of Obs_E2E
EndToEnd ==
    Formatted /\ args.station_id = ID_06156 /\ args.raw = Payload_E2E

Line_EKHK_161250Z ==
    <<"E", "K", "H", "K", " ", "M", "E", "T", "A", "R", " ",
      "1", "6", "1", "2", "5", "0", "Z">>

\* C7 as stated: end to end the first line is "EKHK METAR 161250Z" (read
\* without the blank that ends it), the wind line starts with "140", the
\* knots on 2 digits and "KT", the cloud token is "FEW" and a 3-digit height
\* code, and the visibility token is "9999".
C7_EndToEndAsStated ==
    EndToEnd =>
        /\ Strip(ReportLine(1)) = Line_EKHK_161250Z
        /\ IsPrefix(<<"1", "4", "0">> \o zfill(str(ret.val.wind_speed_kt), 2) \o KT,
                    ReportLine(2))
        /\ IsPrefix(FEW, CloudToken) /\ Len(CloudToken) = 6
        /\ AllDigits(SubSeq(CloudToken, 4, 6))
        /\ VisToken = <<"9", "9", "9", "9">>

\* C7 amended: the same, with the cloud token "SCT" and the height code
\* "000" (cover 30 is scattered; 20 m are 66 ft, below the first hundred).
C7_EndToEndScattered ==
    EndToEnd =>
        /\ Strip(ReportLine(1)) = Line_EKHK_161250Z
        /\ IsPrefix(<<"1", "4", "0">> \o zfill(str(ret.val.wind_speed_kt), 2) \o KT,
                    ReportLine(2))
        /\ CloudToken = SCT \o <<"0", "0", "0">>
        /\ VisToken = <<"9", "9", "9", "9">>

\* the end-to-end report, its wind line read
C7_Witness ==
    EndToEnd /\ Strip(ReportLine(2)) = <<"1", "4", "0", "1", "0", "K", "T">>

\* C9: the crosswind side is "left" exactly when the wind's offset to the
\* selected runway is negative and "right" otherwise, and the runway block
\* shows the left arrow exactly when the side is "right", the right arrow
\* exactly when it is "left".
C9_SideAndArrow ==
    Formatted =>
        LET d   == ret.val
            wd  == d.wind_dir_deg
            neg == \/ 10 < wd /\ wd < 190 /\ wd - 100 < 0
                   \/ wd >= 190 /\ wd - 280 < 0
                   \/ wd <= 10 /\ wd + 80 < 0
            blk == ReportLine(4)
        IN  /\ d.crosswind_from = "left" <=> neg
            /\ d.crosswind_from = "right" <=> ~neg
            /\ Count(LeftArrow, blk) + Count(RightArrow, blk) = 1
            /\ Count(LeftArrow, blk) = 1 <=> d.crosswind_from = "right"
            /\ Count(RightArrow, blk) = 1 <=> d.crosswind_from = "left"

\* wind from 200 degrees on runway 28: from the left, drawn with the right arrow
C9_Witness ==
    /\ Formatted /\ ret.val.wind_dir_deg = 200 /\ ret.val.wind_speed_ms = 5
    /\ ret.val.crosswind_from = "left"
    /\ Count(RightArrow, ReportLine(4)) = 1

\* C10: every record build_metar_dict returns, whichever tracked parameters
\* the payload misses, holds runway, headwind_kt, crosswind_kt and
\* crosswind_from together, and a wind speed of 0 gives headwind 0 and
\* crosswind 0.
C10_DerivedFieldsTogether ==
    (entry = "build_metar_dict" /\ pc \in {"built", "formatted"} /\ ret.exc = None) =>
        /\ {"runway", "headwind_kt", "crosswind_kt", "crosswind_from"}
               \subseteq DOMAIN ret.val
        /\ ret.val.wind_speed_ms = 0 =>
               ret.val.headwind_kt = 0 /\ ret.val.crosswind_kt = 0

\* a calm record of a payload that holds the wind speed alone
C10_Witness ==
    /\ entry = "build_metar_dict" /\ pc = "built" /\ ret.exc = None
    /\ ret.val.wind_speed_ms = 0 /\ ret.val.wind_dir_deg = -1
    /\ ret.val.headwind_kt = 0 /\ ret.val.crosswind_kt = 0

=============================================================================
